---- MODULE Spec2Model ----
(***************************************************************************)
(* Model of scripts/ingest_cricket_data.py: the Field Accessor (safe_get), *)
(* the innings/delivery extractor, and the load orchestrator (main and     *)
(* process_yaml_file) over a transactional store.                          *)
(***************************************************************************)
EXTENDS Integers, Sequences, FiniteSets, TLC

VARIABLES
    \* ---- safe_get (SpecGet) ----
    data,           \* the mapping handed to safe_get
    keys,           \* the *keys argument
    default,        \* the default= argument
    sg_result,      \* what safe_get returned (NotCalled before the call)
    \* ---- extract_innings_and_deliveries (SpecExtract) ----
    yaml_data,      \* the record handed to the extractor
    extracted,      \* <<what the extractor returned>>, <<>> before the call
    \* ---- main / process_yaml_file (Spec) ----
    pc,             \* position of main: idle, loop, summary, aborted
    run,            \* number of batch runs started so far
    yaml_files,     \* the batch: sequence of [name, doc]
    idx,            \* 1-based index of the next file of the for loop
    db,             \* committed storage contents
    txn,            \* storage as seen by the open transaction of the session
    nextId,         \* next value of the matches.match_id sequence
    success_count,
    skip_count,
    error_count,
    result,         \* outcome of the last process_yaml_file call
    fault           \* storage fault the environment injected for the last record

vars == <<data, keys, default, sg_result, yaml_data, extracted, pc, run,
          yaml_files, idx, db, txn, nextId, success_count, skip_count,
          error_count, result, fault>>

getVars == <<data, keys, default, sg_result>>
extractVars == <<yaml_data, extracted>>
mainVars == <<pc, run, yaml_files, idx, db, txn, nextId, success_count,
              skip_count, error_count, result, fault>>

NotCalled == <<"notcalled">>

(***************************************************************************)
(* Python values for safe_get.  A value is None, an int, or a dict; a dict *)
(* is a function from the key universe to values, Absent marking a key    *)
(* that is not in the dict.                                                *)
(***************************************************************************)
None == <<"none">>
Absent == <<"absent">>
IntV(n) == <<"int", n>>
DictV(f) == <<"dict", f>>
IsDict(v) == v[1] = "dict"

MaxKeys == 2

KeyNames == {"a", "b"}
Leaves == {None, IntV(1)}
Dicts1 == {DictV(f) : f \in [KeyNames -> Leaves \cup {Absent}]}
Dicts2 == {DictV(f) : f \in [KeyNames -> Leaves \cup {Absent} \cup Dicts1]}
DataValues == Leaves \cup Dicts2
DefaultValues == Leaves \cup Dicts1
KeySeqs == UNION {[1..n -> KeyNames] : n \in 0..MaxKeys}

\* dict.get(key, default)
DictGet(d, key, dflt) == IF d[2][key] = Absent THEN dflt ELSE d[2][key]

\* the for loop of safe_get, from the current result and the keys left
RECURSIVE SafeGetLoop(_, _, _)
SafeGetLoop(res, ks, dflt) ==
    IF ks = <<>>
    THEN IF res # None THEN res ELSE dflt
    ELSE IF IsDict(res)
         THEN SafeGetLoop(DictGet(res, Head(ks), dflt), Tail(ks), dflt)
         ELSE dflt

safe_get(d, ks, dflt) == SafeGetLoop(d, ks, dflt)

InitGet ==
    /\ data \in DataValues
    /\ keys \in KeySeqs
    /\ default \in DefaultValues
    /\ sg_result = NotCalled

CallSafeGet ==
    /\ sg_result = NotCalled
    /\ sg_result' = safe_get(data, keys, default)
    /\ UNCHANGED <<data, keys, default>>


(***************************************************************************)
(* Strings that the extractor takes apart are sequences of one-character   *)
(* strings.  The alphabet of the labels is digits, "." and letters, so     *)
(* int() is modelled on unsigned decimal text and on text it rejects.      *)
(***************************************************************************)
ValueError == <<>>
NoneStr == "None"

DigitChars == {"0", "1", "2", "3", "4", "5", "6", "7", "8", "9"}
DigitVal(c) ==
    CASE c = "0" -> 0 [] c = "1" -> 1 [] c = "2" -> 2 [] c = "3" -> 3
      [] c = "4" -> 4 [] c = "5" -> 5 [] c = "6" -> 6 [] c = "7" -> 7
      [] c = "8" -> 8 [] c = "9" -> 9

\* str.split('.')
RECURSIVE SplitLoop(_, _, _)
SplitLoop(s, cur, parts) ==
    IF s = <<>> THEN Append(parts, cur)
    ELSE IF Head(s) = "."
         THEN SplitLoop(Tail(s), <<>>, Append(parts, cur))
         ELSE SplitLoop(Tail(s), Append(cur, Head(s)), parts)

SplitDot(s) == SplitLoop(s, <<>>, <<>>)

\* int(text): <<n>>, or ValueError for the empty string and for a non-digit
RECURSIVE IntLoop(_, _)
IntLoop(s, acc) ==
    IF s = <<>> THEN acc ELSE IntLoop(Tail(s), 10 * acc + DigitVal(Head(s)))

ToInt(s) ==
    IF s = <<>> \/ \E i \in 1..Len(s) : s[i] \notin DigitChars
    THEN ValueError
    ELSE <<IntLoop(s, 0)>>

\* parse_over_ball: <<over, ball>>, or ValueError when int() raises
parse_over_ball(over_ball_key) ==
    LET parts == SplitDot(over_ball_key)
        over_num == ToInt(parts[1])
        ball_num == IF Len(parts) > 1 THEN ToInt(parts[2]) ELSE <<1>>
    IN  IF over_num = ValueError \/ ball_num = ValueError
        THEN ValueError
        ELSE <<over_num[1], ball_num[1]>>

PowerplayLastOver == 5
MiddleLastOver == 14

get_phase(over_number) ==
    IF over_number <= PowerplayLastOver THEN "powerplay"
    ELSE IF over_number <= MiddleLastOver THEN "middle"
    ELSE "death"

\* f"{n}" for n >= 0, as a sequence of digit values
RECURSIVE FormatInt(_)
FormatInt(n) == IF n < 10 THEN <<n>> ELSE Append(FormatInt(n \div 10), n % 10)

RECURSIVE StripTrailingZeros(_)
StripTrailingZeros(ds) ==
    IF ds # <<>> /\ ds[Len(ds)] = 0
    THEN StripTrailingZeros(SubSeq(ds, 1, Len(ds) - 1))
    ELSE ds

\* float(f"{last_over}.{last_ball}"): the number, as its integer part and
\* its fractional digits without trailing zeros, so that two floats are
\* equal exactly when their models are (19.10 and 19.1 are one number)
OversFloat(last_over, last_ball) ==
    [int |-> last_over, frac |-> StripTrailingZeros(FormatInt(last_ball))]

\* faulty variant: the comparison inverted (team == batting_team)
RECURSIVE BowlingTeamSame(_, _)
BowlingTeamSame(teams, batting_team) ==
    IF teams = <<>> THEN NoneStr
    ELSE IF Head(teams) = batting_team THEN Head(teams)
    ELSE BowlingTeamSame(Tail(teams), batting_team)

\* faulty variant: the break left out, the last team that differs is kept
RECURSIVE BowlingTeamLast(_, _)
BowlingTeamLast(teams, batting_team) ==
    IF teams = <<>> THEN NoneStr
    ELSE IF teams[Len(teams)] # batting_team THEN teams[Len(teams)]
    ELSE BowlingTeamLast(SubSeq(teams, 1, Len(teams) - 1), batting_team)

\* the bowling team loop: the first team of the list that is not batting
RECURSIVE BowlingTeam(_, _)
BowlingTeam(teams, batting_team) ==
    IF teams = <<>> THEN NoneStr
    ELSE IF Head(teams) # batting_team THEN Head(teams)
    ELSE BowlingTeam(Tail(teams), batting_team)

\* x.get(k, 0) or 0 reads an absent key, None and 0 alike as 0: a run or
\* extras field of the model is the integer, 0 when the key is absent.
RunsBatter(runs) == IF runs.batsman # 0 THEN runs.batsman ELSE runs.batter

\* delivery.get('wicket') or delivery.get('wickets'): the single mapping
\* if there is one, else the list (both are sequences of mappings here,
\* 'wicket' of length 0 or 1)
WicketEntries(delivery) ==
    IF delivery.wicket # <<>> THEN delivery.wicket ELSE delivery.wickets

\* faulty variant: every listed wicket is counted
WicketCountListed(delivery) == Len(WicketEntries(delivery))

\* what one delivery adds to total_wickets
WicketCount(delivery) == IF WicketEntries(delivery) # <<>> THEN 1 ELSE 0

\* the row appended to deliveries_data (the pass-through name columns
\* striker, non_striker, bowler, fielder and the byes, legbyes and penalty
\* columns are not carried)
DeliveryRow(match_id, innings_number, batting_team, bowling_team, ob, delivery) ==
    LET runs_batter == RunsBatter(delivery.runs)
        runs_total == delivery.runs.total
        is_legal == delivery.extras.wides = 0 /\ delivery.extras.noballs = 0
        w == WicketEntries(delivery)
    IN  [match_id |-> match_id,
         innings_number |-> innings_number,
         over_number |-> ob[1],
         ball_number |-> ob[2],
         batting_team |-> batting_team,
         bowling_team |-> bowling_team,
         runs_batter |-> runs_batter,
         runs_extras |-> delivery.runs.extras,
         runs_total |-> runs_total,
         extras_wides |-> delivery.extras.wides,
         extras_noballs |-> delivery.extras.noballs,
         is_wicket |-> w # <<>>,
         wicket_type |-> IF w # <<>> THEN w[1].kind ELSE NoneStr,
         player_dismissed |-> IF w # <<>> THEN w[1].player_out ELSE NoneStr,
         is_boundary |-> runs_batter = 4 \/ runs_batter = 6,
         is_four |-> runs_batter = 4,
         is_six |-> runs_batter = 6,
         is_dot_ball |-> runs_total = 0 /\ is_legal,
         is_legal_delivery |-> is_legal,
         phase |-> get_phase(ob[1])]

\* the running state of the inner loop before the first delivery
InningsStart ==
    [ok |-> TRUE, total_runs |-> 0, total_wickets |-> 0, total_extras |-> 0,
     last_over |-> 0, last_ball |-> 0, rows |-> <<>>]

\* one pass of the inner loop over a delivery entry
DeliveryStep(acc, match_id, innings_number, batting_team, bowling_team, entry) ==
    LET ob == parse_over_ball(entry.label)
    IN  IF ob = ValueError THEN [acc EXCEPT !.ok = FALSE]
        ELSE [ok |-> TRUE,
              total_runs |-> acc.total_runs + entry.runs.total,
              total_wickets |-> acc.total_wickets + WicketCount(entry),
              total_extras |-> acc.total_extras + entry.runs.extras,
              last_over |-> ob[1],
              last_ball |-> ob[2],
              rows |-> Append(acc.rows,
                        DeliveryRow(match_id, innings_number, batting_team,
                                    bowling_team, ob, entry))]

RECURSIVE DeliveriesLoop(_, _, _, _, _, _)
DeliveriesLoop(acc, match_id, innings_number, batting_team, bowling_team, deliveries) ==
    IF deliveries = <<>> \/ ~acc.ok THEN acc
    ELSE DeliveriesLoop(
            DeliveryStep(acc, match_id, innings_number, batting_team,
                         bowling_team, Head(deliveries)),
            match_id, innings_number, batting_team, bowling_team,
            Tail(deliveries))

\* the row appended to innings_data (is_super_over is not carried)
InningsRow(match_id, innings_number, batting_team, bowling_team, acc) ==
    [match_id |-> match_id,
     innings_number |-> innings_number,
     batting_team |-> batting_team,
     bowling_team |-> bowling_team,
     total_runs |-> acc.total_runs,
     total_wickets |-> acc.total_wickets,
     total_overs |-> OversFloat(acc.last_over, acc.last_ball),
     total_extras |-> acc.total_extras]

\* the outer loop, from innings entry idx0 + 1 on
RECURSIVE InningsLoop(_, _, _, _, _)
InningsLoop(out, innings_list, idx0, match_id, teams) ==
    IF idx0 >= Len(innings_list) \/ ~out.ok THEN out
    ELSE LET innings_info == innings_list[idx0 + 1]
             innings_number == idx0 + 1
             batting_team == innings_info.team
             bowling_team == BowlingTeam(teams, batting_team)
             acc == DeliveriesLoop(InningsStart, match_id, innings_number,
                                   batting_team, bowling_team,
                                   innings_info.deliveries)
         IN  IF ~acc.ok
             THEN [out EXCEPT !.ok = FALSE]
             ELSE InningsLoop(
                    [ok |-> TRUE,
                     innings_data |-> Append(out.innings_data,
                         InningsRow(match_id, innings_number, batting_team,
                                    bowling_team, acc)),
                     deliveries_data |-> out.deliveries_data \o acc.rows],
                    innings_list, idx0 + 1, match_id, teams)

\* extract_innings_and_deliveries: ok = FALSE when it raises
extract_innings_and_deliveries(yd, match_id, teams) ==
    InningsLoop([ok |-> TRUE, innings_data |-> <<>>, deliveries_data |-> <<>>],
                yd.innings, 0, match_id, teams)


(***************************************************************************)
(* Inputs of the extractor.                                                *)
(***************************************************************************)
MaxTeams == 2
MaxInnings == 2
MaxDeliveries == 2

TeamNames == {"A", "B"}
BattingTeams == {"A", "B", "C", NoneStr}
TeamLists == UNION {[1..n -> TeamNames] : n \in 0..MaxTeams}

NoRuns == [batsman |-> 0, batter |-> 0, extras |-> 0, total |-> 0]
NoExtras == [wides |-> 0, noballs |-> 0]

\* "0.1": a four off the bat, old spelling of the striker's runs
DFour ==
    [label |-> <<"0", ".", "1">>,
     runs |-> [batsman |-> 4, batter |-> 0, extras |-> 0, total |-> 4],
     extras |-> NoExtras, wicket |-> <<>>, wickets |-> <<>>]
\* "5.10": a wide on which two wickets are listed
DWideTwoWickets ==
    [label |-> <<"5", ".", "1", "0">>,
     runs |-> [batsman |-> 0, batter |-> 0, extras |-> 1, total |-> 1],
     extras |-> [wides |-> 1, noballs |-> 0], wicket |-> <<>>,
     wickets |-> <<[kind |-> "run out", player_out |-> "p1"],
                   [kind |-> "obstructing the field", player_out |-> "p2"]>>]
\* "19.6": a dot ball with a single wicket
DDotWicket ==
    [label |-> <<"1", "9", ".", "6">>,
     runs |-> NoRuns, extras |-> NoExtras,
     wicket |-> <<[kind |-> "bowled", player_out |-> "p2"]>>, wickets |-> <<>>]
\* "7": no fractional part, a six, new spelling of the striker's runs
DSixNoFraction ==
    [label |-> <<"7">>,
     runs |-> [batsman |-> 0, batter |-> 6, extras |-> 0, total |-> 6],
     extras |-> NoExtras, wicket |-> <<>>, wickets |-> <<>>]
\* "x.1": a label int() rejects
DBadLabel ==
    [label |-> <<"x", ".", "1">>,
     runs |-> [batsman |-> 0, batter |-> 1, extras |-> 0, total |-> 1],
     extras |-> NoExtras, wicket |-> <<>>, wickets |-> <<>>]

DeliveryEntries == {DFour, DWideTwoWickets, DDotWicket, DSixNoFraction, DBadLabel}
DeliveryLists == UNION {[1..n -> DeliveryEntries] : n \in 0..MaxDeliveries}

\* records whose team list and batting teams vary
TeamInnings == [team : BattingTeams, deliveries : {<<>>, <<DFour>>}]
TeamRecords ==
    [info : [teams : TeamLists, players : {<<>>}],
     innings : UNION {[1..n -> TeamInnings] : n \in 0..MaxInnings}]

\* two-team records whose deliveries vary, of up to two innings
BallInnings == [team : {"A", "B"}, deliveries : DeliveryLists]
BallRecords ==
    [info : [teams : {<<"A", "B">>}, players : {<<>>}],
     innings : {<<>>} \cup {<<i>> : i \in BallInnings}
                      \cup {<<i, j>> : i \in BallInnings, j \in BallInnings}]

InitExtract ==
    /\ yaml_data \in TeamRecords \cup BallRecords
    /\ extracted = <<>>

\* the call of process_yaml_file, with the teams it reads from the record
CallExtract ==
    /\ extracted = <<>>
    /\ extracted' = <<extract_innings_and_deliveries(
                          yaml_data, 1, yaml_data.info.teams)>>
    /\ UNCHANGED yaml_data


(***************************************************************************)
(* Storage.  db is what is committed; txn is what the session's open       *)
(* transaction sees (db plus its own uncommitted writes).                  *)
(***************************************************************************)
EmptyDb == [matches |-> {}, players |-> {}, innings |-> {}, ball_by_ball |-> <<>>]

SeqToSet(s) == {s[i] : i \in 1..Len(s)}

\* extract_match_data (the columns that depend only on pass-through header
\* fields are not carried)
extract_match_data(doc, source_file) ==
    LET teams == doc.info.teams
    IN  [source_file |-> source_file,
         team1 |-> IF Len(teams) > 0 THEN teams[1] ELSE NoneStr,
         team2 |-> IF Len(teams) > 1 THEN teams[2] ELSE NoneStr]

\* extract_players: info.players is the sequence of the mapping's items
RECURSIVE extract_players(_)
extract_players(players_data) ==
    IF players_data = <<>> THEN <<>>
    ELSE LET item == Head(players_data)
         IN  [i \in 1..Len(item.list) |->
                 [player_name |-> item.list[i], team |-> item.team]]
             \o extract_players(Tail(players_data))

\* faulty variant: the existence check left out
ExistingMatchNone(t, source_file) == {}

\* faulty variant: the existence check compares another column
ExistingMatchByTeam(t, source_file) == {m \in t.matches : m.team1 = source_file}

\* SELECT match_id FROM matches WHERE source_file = %s
ExistingMatch(t, source_file) == {m \in t.matches : m.source_file = source_file}

\* INSERT INTO matches ... RETURNING match_id
InsertMatchRow(t, match_data, match_id) ==
    [t EXCEPT !.matches = @ \cup
        {[match_id |-> match_id, source_file |-> match_data.source_file,
          team1 |-> match_data.team1, team2 |-> match_data.team2]}]

\* insert_players: ON CONFLICT (player_name, team) DO NOTHING
insert_players(t, players) == [t EXCEPT !.players = @ \cup SeqToSet(players)]

insert_innings(t, innings_data) ==
    [t EXCEPT !.innings = @ \cup SeqToSet(innings_data)]

insert_deliveries(t, deliveries) ==
    [t EXCEPT !.ball_by_ball = @ \o deliveries]

conn_commit(t) == t

\* faulty variant: the rollback left out, the transaction stays as it is
conn_rollback_missing(committed, t) == t

conn_rollback(committed, t) == committed

(***************************************************************************)
(* Storage faults.  The environment may make one storage call of a record  *)
(* fail: the call raises and the transaction stays open ("reject": a       *)
(* constraint violation, a statement error), or the connection is lost     *)
(* ("connlost"), after which conn.rollback() raises as well.               *)
(***************************************************************************)
NoFault == [at |-> "none", kind |-> "none"]
StorageCalls == {"select", "insert_match", "insert_players", "insert_innings",
                 "insert_deliveries", "commit"}
Faults == {NoFault} \cup [at : StorageCalls, kind : {"reject", "connlost"}]

Raised(t, nid, f) == [result |-> "raised", txn |-> t, nextId |-> nid, hit |-> f]
Returned(b, t, nid) == [result |-> b, txn |-> t, nextId |-> nid, hit |-> NoFault]

\* process_yaml_file from insert_players on, the match row being inserted
ProcessAfterMatch(t1, nid, doc, match_id, f) ==
    IF f.at = "insert_players" THEN Raised(t1, nid, f)
    ELSE
    LET t2 == insert_players(t1, extract_players(doc.info.players))
        ex == extract_innings_and_deliveries(doc, match_id, doc.info.teams)
    IN  IF ~ex.ok THEN Raised(t2, nid, NoFault)
        ELSE IF f.at = "insert_innings" THEN Raised(t2, nid, f)
        ELSE
        LET t3 == insert_innings(t2, ex.innings_data)
        IN  IF f.at = "insert_deliveries" THEN Raised(t3, nid, f)
            ELSE Returned("True", insert_deliveries(t3, ex.deliveries_data), nid)

\* process_yaml_file: the value returned ("True", "False") or "raised", the
\* transaction's view afterwards, the sequence, and the fault that hit
process_yaml_file(t, nid, file, f) ==
    LET doc == file.doc
    IN  CASE doc.kind = "unreadable" -> Raised(t, nid, NoFault)
          [] doc.kind = "yamlerror" -> Returned("False", t, nid)
          [] doc.kind = "empty" -> Returned("False", t, nid)
          [] doc.kind = "notmapping" -> Raised(t, nid, NoFault)
          [] doc.kind = "mapping" ->
                LET match_data == extract_match_data(doc, file.name)
                IN  IF f.at = "select" THEN Raised(t, nid, f)
                    ELSE IF ExistingMatch(t, file.name) # {}
                         THEN Returned("False", t, nid)
                    ELSE IF f.at = "insert_match" THEN Raised(t, nid, f)
                    ELSE ProcessAfterMatch(InsertMatchRow(t, match_data, nid),
                                           nid + 1, doc, nid, f)


(***************************************************************************)
(* The files of a data directory.                                          *)
(***************************************************************************)
MaxRuns == 2

NoInfo == [teams |-> <<>>, players |-> <<>>]
Unreadable == [kind |-> "unreadable", info |-> NoInfo, innings |-> <<>>]
YamlError == [kind |-> "yamlerror", info |-> NoInfo, innings |-> <<>>]
EmptyYaml == [kind |-> "empty", info |-> NoInfo, innings |-> <<>>]
NotMapping == [kind |-> "notmapping", info |-> NoInfo, innings |-> <<>>]

\* a complete two-innings scorecard
DocTwoInnings ==
    [kind |-> "mapping",
     info |-> [teams |-> <<"A", "B">>,
               players |-> <<[team |-> "A", list |-> <<"p1">>],
                             [team |-> "B", list |-> <<"p2">>]>>],
     innings |-> <<[team |-> "A", deliveries |-> <<DFour, DWideTwoWickets>>],
                   [team |-> "B", deliveries |-> <<DDotWicket>>]>>]
\* a scorecard of the same two teams whose second delivery label is bad
DocBadLabel ==
    [kind |-> "mapping",
     info |-> [teams |-> <<"A", "B">>,
               players |-> <<[team |-> "A", list |-> <<"p1">>]>>],
     innings |-> <<[team |-> "B", deliveries |-> <<DFour, DBadLabel>>]>>]
\* a scorecard with a roster and no innings
DocNoInnings ==
    [kind |-> "mapping",
     info |-> [teams |-> <<"B">>,
               players |-> <<[team |-> "B", list |-> <<"p3">>]>>],
     innings |-> <<>>]

Docs == {Unreadable, YamlError, EmptyYaml, NotMapping,
         DocTwoInnings, DocBadLabel, DocNoInnings}

\* sorted(glob.glob('*.yaml')): the names in order, each present or not
FileNames == <<"m1.yaml", "m2.yaml">>
NoFile == [kind |-> "nofile", info |-> NoInfo, innings |-> <<>>]

RECURSIVE ListingFrom(_, _)
ListingFrom(content, i) ==
    IF i > Len(FileNames) THEN <<>>
    ELSE (IF content[i] = NoFile THEN <<>>
          ELSE <<[name |-> FileNames[i], doc |-> content[i]]>>)
         \o ListingFrom(content, i + 1)

Listings ==
    {ListingFrom(c, 1) : c \in [1..Len(FileNames) -> Docs \cup {NoFile}]} \ {<<>>}

IdleGet ==
    /\ data = None
    /\ keys = <<>>
    /\ default = None
    /\ sg_result = NotCalled

IdleExtract ==
    /\ yaml_data = [info |-> NoInfo, innings |-> <<>>]
    /\ extracted = <<>>

InitMain ==
    /\ pc = "idle"
    /\ run = 0
    /\ yaml_files = <<>>
    /\ idx = 1
    /\ db = EmptyDb
    /\ txn = EmptyDb
    /\ nextId = 1
    /\ success_count = 0
    /\ skip_count = 0
    /\ error_count = 0
    /\ result = "none"
    /\ fault = NoFault

\* main up to the for loop, for a run that reaches it: a database URL is
\* given, the directory holds at least one file, the connection opens
StartRun ==
    /\ pc = "idle"
    /\ run < MaxRuns
    /\ \E listing \in Listings : yaml_files' = listing
    /\ run' = run + 1
    /\ idx' = 1
    /\ txn' = db
    /\ success_count' = 0
    /\ skip_count' = 0
    /\ error_count' = 0
    /\ pc' = "loop"
    /\ UNCHANGED <<db, nextId, result, fault, getVars, extractVars>>

\* one pass of the for loop of main: process_yaml_file, then the counting,
\* the commit or the rollback.  On a lost connection conn.rollback() raises
\* a psycopg2 error inside the except clause, which ends the loop at the
\* outer 'except psycopg2.Error' (sys.exit(1)); the server drops the open
\* transaction.  A match_id drawn for a row that is rolled back is not
\* handed out again.
ProcessNext ==
    /\ pc = "loop"
    /\ idx <= Len(yaml_files)
    /\ \E f \in Faults :
        LET r == process_yaml_file(txn, nextId, yaml_files[idx], f)
            commitFails == r.result = "True" /\ f.at = "commit"
            hit == IF commitFails THEN f ELSE r.hit
            excepted == r.result = "raised" \/ commitFails
        IN  /\ result' = r.result
            /\ fault' = hit
            /\ nextId' = r.nextId
            /\ success_count' = success_count + (IF r.result = "True" THEN 1 ELSE 0)
            /\ skip_count' = skip_count + (IF r.result = "False" THEN 1 ELSE 0)
            /\ error_count' = error_count + (IF excepted THEN 1 ELSE 0)
            /\ db' = IF r.result = "True" /\ ~commitFails
                     THEN conn_commit(r.txn) ELSE db
            /\ txn' = IF excepted
                      THEN (IF hit.kind = "connlost" THEN db
                            ELSE conn_rollback(db, r.txn))
                      ELSE r.txn
            /\ pc' = IF excepted /\ hit.kind = "connlost" THEN "aborted" ELSE "loop"
    /\ idx' = idx + 1
    /\ UNCHANGED <<run, yaml_files, getVars, extractVars>>

\* the final summary and the database statistics
Summary ==
    /\ pc = "loop"
    /\ idx > Len(yaml_files)
    /\ pc' = "summary"
    /\ UNCHANGED <<run, yaml_files, idx, db, txn, nextId, success_count,
                   skip_count, error_count, result, fault, getVars, extractVars>>

\* the finally clause: cursor and connection are closed, the process ends
Close ==
    /\ pc \in {"summary", "aborted"}
    /\ pc' = "idle"
    /\ yaml_files' = <<>>
    /\ idx' = 1
    /\ txn' = db
    /\ success_count' = 0
    /\ skip_count' = 0
    /\ error_count' = 0
    /\ result' = "none"
    /\ fault' = NoFault
    /\ UNCHANGED <<run, db, nextId, getVars, extractVars>>

Init == InitMain /\ IdleGet /\ IdleExtract
Next == StartRun \/ ProcessNext \/ Summary \/ Close
Spec == Init /\ [][Next]_vars

GetInit == InitGet /\ IdleExtract /\ InitMain
GetNext == CallSafeGet /\ UNCHANGED <<extractVars, mainVars>>
SpecGet == GetInit /\ [][GetNext]_vars

ExtractInit == InitExtract /\ IdleGet /\ InitMain
ExtractNext == CallExtract /\ UNCHANGED <<getVars, mainVars>>
SpecExtract == ExtractInit /\ [][ExtractNext]_vars


(***************************************************************************)
(* Properties of safe_get.                                                 *)
(***************************************************************************)
\* the value reached by indexing successively through the keys; Absent
\* when a key is missing or an intermediate value is not a mapping
RECURSIVE Reach(_, _)
Reach(v, ks) ==
    IF ks = <<>> THEN v
    ELSE IF IsDict(v) /\ v[2][Head(ks)] # Absent
         THEN Reach(v[2][Head(ks)], Tail(ks))
         ELSE Absent

\* C9: safe_get returns the value reached through the keys, or exactly the
\* caller's default when a key on the path is absent, an intermediate
\* value is not a mapping, or the reached value is null; no third value.
C9_SafeGetReachedOrDefault ==
    sg_result # NotCalled =>
        sg_result = (LET r == Reach(data, keys)
                     IN  IF r = Absent \/ r = None THEN default ELSE r)

(***************************************************************************)
(* Properties of extract_innings_and_deliveries.                           *)
(***************************************************************************)
Extracted == extracted # <<>> /\ extracted[1].ok
Out == extracted[1]
Teams == yaml_data.info.teams
DistinctTeams == Cardinality(SeqToSet(Teams))

\* the delivery rows emitted with innings_number i, in order
RowsOfInnings(i) ==
    LET InInnings(r) == r.innings_number = i
    IN  SelectSeq(Out.deliveries_data, InInnings)

\* C7: with two distinct teams listed and an innings batted by one of
\* them, the innings row and each of its delivery rows name the other
\* listed team as the bowling team, whichever way round the list is.
C7_BowlingIsOtherTeam ==
    (Extracted /\ Len(Teams) = 2 /\ DistinctTeams = 2) =>
        \A i \in 1..Len(yaml_data.innings) :
            LET bat == yaml_data.innings[i].team
                other == IF bat = Teams[1] THEN Teams[2] ELSE Teams[1]
                rows == RowsOfInnings(i)
            IN  bat \in SeqToSet(Teams) =>
                    /\ Out.innings_data[i].innings_number = i
                    /\ Out.innings_data[i].bowling_team = other
                    /\ \A j \in 1..Len(rows) : rows[j].bowling_team = other

\* the batting team is listed second, so the loop takes the first team;
\* in the other innings it has to skip the first team
C7_Witness ==
    /\ Extracted
    /\ Teams = <<"B", "A">>
    /\ Len(yaml_data.innings) = 2
    /\ yaml_data.innings[1].team = "A"
    /\ yaml_data.innings[2].team = "B"
    /\ Len(Out.deliveries_data) = 2
    /\ Out.innings_data[2].bowling_team = "A"

\* C8 as stated: the bowling team is unknown exactly when the team list
\* has fewer than two distinct entries, whatever the batting team is.
C8_UnknownIffFewerThanTwo ==
    Extracted =>
        \A i \in 1..Len(Out.innings_data) :
            Out.innings_data[i].bowling_team = NoneStr <=> DistinctTeams < 2

\* C8 amended: the bowling team is unknown exactly when no listed team
\* differs from the batting team (so only with fewer than two distinct
\* entries); otherwise it is the first listed team that differs from the
\* batting team, also when the list has one team or the same team twice.
C8_UnknownIffNoOtherTeam ==
    Extracted =>
        \A i \in 1..Len(Out.innings_data) :
            LET bat == yaml_data.innings[i].team
                bowl == Out.innings_data[i].bowling_team
            IN  /\ bowl = NoneStr <=> \A k \in 1..Len(Teams) : Teams[k] = bat
                /\ bowl = NoneStr => DistinctTeams < 2
                /\ bowl # NoneStr =>
                      \E k \in 1..Len(Teams) :
                          /\ Teams[k] = bowl
                          /\ bowl # bat
                          /\ \A j \in 1..(k - 1) : Teams[j] = bat

\* the same team listed twice: unknown for the innings it bats, and that
\* team for an innings whose batting team is absent
C8_Witness ==
    /\ Extracted
    /\ Teams = <<"A", "A">>
    /\ Len(yaml_data.innings) = 2
    /\ yaml_data.innings[1].team = "A"
    /\ Out.innings_data[1].bowling_team = NoneStr
    /\ yaml_data.innings[2].team = NoneStr
    /\ Out.innings_data[2].bowling_team = "A"

RECURSIVE SumRunsTotal(_)
SumRunsTotal(rows) ==
    IF rows = <<>> THEN 0 ELSE Head(rows).runs_total + SumRunsTotal(Tail(rows))

RECURSIVE SumRunsExtras(_)
SumRunsExtras(rows) ==
    IF rows = <<>> THEN 0 ELSE Head(rows).runs_extras + SumRunsExtras(Tail(rows))

RECURSIVE CountWickets(_)
CountWickets(rows) ==
    IF rows = <<>> THEN 0
    ELSE (IF Head(rows).is_wicket THEN 1 ELSE 0) + CountWickets(Tail(rows))

\* C10: each innings row agrees with the delivery rows emitted with its
\* innings_number: total_runs and total_extras are their sums, total_wickets
\* counts the rows with is_wicket, total_overs is the float written from the
\* over and ball of the last of them; with no delivery all are 0 and 0.0.
C10_AggregatesMatchRows ==
    Extracted =>
        /\ Len(Out.innings_data) = Len(yaml_data.innings)
        /\ \A i \in 1..Len(Out.innings_data) :
            LET row == Out.innings_data[i]
                rows == RowsOfInnings(i)
                last == rows[Len(rows)]
            IN  /\ row.innings_number = i
                /\ Len(rows) = Len(yaml_data.innings[i].deliveries)
                /\ row.total_runs = SumRunsTotal(rows)
                /\ row.total_extras = SumRunsExtras(rows)
                /\ row.total_wickets = CountWickets(rows)
                /\ rows # <<>> =>
                      row.total_overs = OversFloat(last.over_number, last.ball_number)
                /\ rows = <<>> =>
                      /\ row.total_runs = 0
                      /\ row.total_extras = 0
                      /\ row.total_wickets = 0
                      /\ row.total_overs = [int |-> 0, frac |-> <<>>]

\* two innings, the first ending on a delivery that lists two wickets and
\* is labelled 5.10, the second without deliveries
C10_Witness ==
    /\ Extracted
    /\ Len(yaml_data.innings) = 2
    /\ yaml_data.innings[1].deliveries = <<DDotWicket, DWideTwoWickets>>
    /\ yaml_data.innings[2].deliveries = <<>>
    /\ Out.innings_data[1].total_wickets = 2
    /\ Out.innings_data[1].total_runs = 1
    /\ Out.innings_data[1].total_overs = [int |-> 5, frac |-> <<1>>]
    /\ Out.innings_data[2].total_overs = [int |-> 0, frac |-> <<>>]


(***************************************************************************)
(* Properties of the load orchestrator.                                    *)
(***************************************************************************)
\* main is about to process yaml_files[idx]: the step that follows is one
\* pass of the for loop
Processing == pc = "loop" /\ idx <= Len(yaml_files)
Current == yaml_files[idx]
SourceFiles(d) == {m.source_file : m \in d.matches}
MatchIds(d) == {m.match_id : m \in d.matches}
Roster(file) == SeqToSet(extract_players(file.doc.info.players))

\* no row of d0 is missing from d1
RowsKept(d0, d1) ==
    /\ d0.matches \subseteq d1.matches
    /\ d0.players \subseteq d1.players
    /\ d0.innings \subseteq d1.innings
    /\ Len(d0.ball_by_ball) <= Len(d1.ball_by_ball)
    /\ SubSeq(d1.ball_by_ball, 1, Len(d0.ball_by_ball)) = d0.ball_by_ball

\* d1 is d0 plus all the rows of the record: one match row with the file
\* name, every roster row, and the innings and delivery rows extracted
\* under that match row's identifier
FullyIngested(file, d0, d1) ==
    \E m \in d1.matches :
        LET ex == extract_innings_and_deliveries(file.doc, m.match_id,
                                                 file.doc.info.teams)
        IN  /\ m \notin d0.matches
            /\ m.source_file = file.name
            /\ file.doc.kind = "mapping"
            /\ ex.ok
            /\ d1.matches = d0.matches \cup {m}
            /\ d1.players = d0.players \cup Roster(file)
            /\ d1.innings = d0.innings \cup SeqToSet(ex.innings_data)
            /\ d1.ball_by_ball = d0.ball_by_ball \o ex.deliveries_data

\* the record was not counted as succeeded alone: it was skipped or failed
NotSucceeded ==
    error_count' > error_count \/ skip_count' > skip_count

\* C1 as stated: a record that fails leaves committed storage as it was,
\* no earlier row is removed, and after a record not yet in storage is
\* processed its match row, roster rows, innings rows and delivery rows
\* are all present or all absent.
C1_AllRowsOrNone ==
    [][Processing =>
          /\ NotSucceeded => db' = db
          /\ RowsKept(db, db')
          /\ Current.name \notin SourceFiles(db) /\ Current.doc.kind = "mapping" =>
                \/ FullyIngested(Current, db, db')
                \/ /\ Current.name \notin SourceFiles(db')
                   /\ Roster(Current) \cap db'.players = {}
                   /\ db'.innings = db.innings
                   /\ db'.ball_by_ball = db.ball_by_ball]_vars

\* C1 amended: a record that fails leaves committed storage as it was, no
\* earlier row is removed, and a processed record either adds its match
\* row, all its roster rows, innings rows and delivery rows together or
\* adds nothing; a roster row of a record without a match row is present
\* only if it was committed before (another record lists the same player
\* and team).
C1_RecordAtomic ==
    [][Processing =>
          /\ NotSucceeded => db' = db
          /\ RowsKept(db, db')
          /\ db' = db \/ FullyIngested(Current, db, db')
          /\ Current.name \notin SourceFiles(db') =>
                Roster(Current) \cap db'.players \subseteq db.players]_vars

\* a record failed at the last insert, after its match, roster and innings
\* rows were written, and the rows of an earlier record are committed
C1_Witness ==
    /\ pc = "loop"
    /\ idx = 3
    /\ result = "raised"
    /\ fault = [at |-> "insert_deliveries", kind |-> "reject"]
    /\ yaml_files[2].doc = DocTwoInnings
    /\ Cardinality(db.matches) = 1
    /\ SourceFiles(db) = {"m1.yaml"}
    /\ txn = db
    /\ nextId = 3

\* C2: at the final summary the three counts sum to the number of records.
C2_CountsSumToRecords ==
    pc = "summary" =>
        success_count + skip_count + error_count = Len(yaml_files)

\* C3: processing a record whose file name already has a match row inserts
\* nothing (storage is unchanged) and never counts it as succeeded; unless
\* reading the record or the existence check itself raised, it is counted
\* in skip_count and not in error_count.
C3_ExistingRecordSkipped ==
    [][(Processing /\ Current.name \in SourceFiles(db)) =>
          /\ db' = db
          /\ txn' = db
          /\ success_count' = success_count
          /\ result' # "True"
          /\ (Current.doc.kind = "mapping" /\ fault'.at # "select") =>
                result' = "False"
          /\ result' = "False" =>
                /\ skip_count' = skip_count + 1
                /\ error_count' = error_count]_vars

\* the second run over a batch the first run ingested in full: both
\* records skipped, nothing added
C3_Witness ==
    /\ pc = "summary"
    /\ run = 2
    /\ Len(yaml_files) = 2
    /\ yaml_files[1].doc = DocTwoInnings
    /\ yaml_files[2].doc = DocNoInnings
    /\ skip_count = 2
    /\ success_count = 0
    /\ error_count = 0
    /\ Cardinality(db.matches) = 2
    /\ nextId = 3

\* C4: an empty or unparseable record is counted as failed, not as skipped
\* and not as succeeded, and the batch goes on.
C4_MalformedCountedFailed ==
    [][(Processing /\ Current.doc.kind \in {"empty", "yamlerror"}) =>
          /\ error_count' = error_count + 1
          /\ skip_count' = skip_count
          /\ success_count' = success_count
          /\ pc' = "loop"
          /\ idx' = idx + 1]_vars

\* C5: whatever fails, a run that has ended went through every record of
\* the batch and reached the final summary.
C5_EveryRecordAttempted ==
    pc \in {"summary", "aborted"} =>
        /\ idx = Len(yaml_files) + 1
        /\ pc = "summary"

\* C6: committed storage never holds two match rows with one source file,
\* and every innings row and delivery row carries the identifier of
\* exactly one committed match row.
C6_NaturalKeyUnique ==
    /\ \A m1, m2 \in db.matches : m1.source_file = m2.source_file => m1 = m2
    /\ \A r \in db.innings :
          Cardinality({m \in db.matches : m.match_id = r.match_id}) = 1
    /\ \A j \in 1..Len(db.ball_by_ball) :
          Cardinality({m \in db.matches :
                          m.match_id = db.ball_by_ball[j].match_id}) = 1

\* the first run ingested one record and rolled the other back; the second
\* run skips the first and ingests the second under a fresh identifier
C6_Witness ==
    /\ pc = "summary"
    /\ run = 2
    /\ skip_count = 1
    /\ success_count = 1
    /\ Cardinality(db.matches) = 2
    /\ MatchIds(db) = {1, 3}
    /\ Len(db.ball_by_ball) = 3

====
